---- MODULE Spec2Model ----
(***************************************************************************)
(* A model of langgraph-se-agent:                                          *)
(*   - the AssistGraph of se_agent/assist_graph.py, run by the graph       *)
(*     library in supersteps (specification Spec);                         *)
(*   - the Flask endpoints of se_agent/integration/github_webhook.py       *)
(*     (specification WebhookSpec).                                        *)
(***************************************************************************)
EXTENDS Integers, Sequences, FiniteSets, TLC

VARIABLES
    db,         \* the repositories table of store.db: a set of rows
    state,      \* the checkpointed State of the thread (its channels)
    tasks,      \* the tasks of the current superstep, in task order
    status,     \* "idle" | "running" | "END" | "failed" (a node raised)
    step,       \* number of the current superstep of the run
    log,        \* the nodes that ran in the current run, in the order they ran
    first,      \* what check_if_repo_onboarded saw and returned for this run
    code_files, \* the code-file context suggest_solution built in this run
    fetched,    \* history: what each fetch_file_content task of this run returned, by task
    runs        \* number of runs started on the thread

gvars == <<db, state, tasks, status, step, log, first, code_files, fetched, runs>>

VARIABLES
    store,        \* the store's repository records, by repository URL
    github_token, \* whether the environment sets GITHUB_TOKEN
    phase,        \* "idle" | "received" | "responded"
    req,          \* the request being served
    resp,         \* the response the view function returned
    calls,        \* the calls the view function made to the agent runtime and GitHub
    handler       \* the handle_*_event function webhook() dispatched to, or "none"

wvars == <<store, github_token, phase, req, resp, calls, handler>>
vars == <<gvars, wvars>>

----------------------------------------------------------------------------
(* Bounds *)
MaxFiles == 2      \* longest list of files the localization model suggests
MaxRuns == 2       \* requests served on the one checkpointed thread

(* Small input sets *)
RepoA == [url |-> "https://github.com/o/a", src_folder |-> "src", branch |-> "main"]
Repos == {RepoA}                        \* the repository the requests are about
NoRepo == [url |-> "", src_folder |-> "", branch |-> ""]
Paths == {"src/a.py", "src/b.py"}
Contents == {"v1", "v2"}
PackageNames == {"core"}                \* packages the packages table holds
\* the package lists the localization model may return: known packages, or a
\* list with a name the database does not hold
SuggestedLists == {{"core"}, {"core", "ghost"}}

FileLists == UNION {[1..n -> Paths] : n \in 0..MaxFiles}

----------------------------------------------------------------------------
(* Python's None for the Optional fields of State *)
NoneV == [none |-> TRUE, v |-> <<>>]
Some(x) == [none |-> FALSE, v |-> x]

(* The value cleanup writes to file_contents, and a list to be appended *)
DeleteV == [delete |-> TRUE, items |-> <<>>]
Items(s) == [delete |-> FALSE, items |-> s]

(* The graph of the builder: nodes, plain edges, and the two branches *)
Nodes_without_onboard_repo ==
    {"localize_packages", "localize_files",
     "fetch_file_content", "suggest_solution", "cleanup"}

Nodes == {"onboard_repo", "localize_packages", "localize_files",
          "fetch_file_content", "suggest_solution", "cleanup"}

Edges == {<<"onboard_repo", "localize_packages">>,
          <<"localize_packages", "localize_files">>,
          <<"fetch_file_content", "suggest_solution">>,
          <<"suggest_solution", "cleanup">>,
          <<"cleanup", "END">>}

(* add_conditional_edges: the node the branch leaves, its branch function and
   the nodes it may name *)
ConditionalEdges ==
    {[source |-> "START", path |-> "check_if_repo_onboarded",
      targets |-> {"onboard_repo", "localize_packages"}],
     [source |-> "localize_files", path |-> "continue_to_suggest_solution",
      targets |-> {"fetch_file_content"}]}

EdgeTargets(n) == {e[2] : e \in {d \in Edges : d[1] = n}}

NoArg == [filepath |-> "", repo |-> NoRepo]
Task(n, a) == [node |-> n, arg |-> a, done |-> FALSE, w |-> <<>>]

(* SELECT repo_id FROM repositories WHERE url = ? AND src_path = ? AND branch = ? *)
RepoRows(d, repo) ==
    {r \in d : r.url = repo.url /\ r.src_path = repo.src_folder /\ r.branch = repo.branch}

(* Mutant: the two branches of the onboarded check swapped *)
check_if_repo_onboarded_swapped(s, d) ==
    IF RepoRows(d, s.repo) # {} THEN {"onboard_repo"} ELSE {"localize_packages"}

check_if_repo_onboarded(s, d) ==
    IF RepoRows(d, s.repo) # {} THEN {"localize_packages"} ELSE {"onboard_repo"}

(* One Send("fetch_file_content", FilepathState(filepath, repo)) per suggested file *)
continue_to_suggest_solution(s) ==
    [i \in 1..Len(s.file_suggestions.v) |->
        [filepath |-> s.file_suggestions.v[i], repo |-> s.repo]]

----------------------------------------------------------------------------
(* The State channels and their reducers *)
InitialState ==
    [messages |-> <<>>, repo |-> NoRepo, repo_id |-> 0,
     package_suggestions |-> NoneV, package_name_index |-> NoneV,
     file_suggestions |-> NoneV, file_contents |-> <<>>]

Reduce(c, old, new) ==
    CASE c = "messages" -> old \o new
      [] c = "file_contents" -> IF new.delete THEN <<>> ELSE old \o new.items
      [] OTHER -> new

(* A node's returned dict applied to the channels; keys that are no channel are dropped *)
ApplyUpd(s, upd) ==
    [c \in DOMAIN s |-> IF c \in DOMAIN upd THEN Reduce(c, s[c], upd[c]) ELSE s[c]]

Writes(upd, trig, sends) == [upd |-> upd, trig |-> trig, sends |-> sends]

RECURSIVE ApplyAll(_, _, _)
ApplyAll(s, ts, i) ==
    IF i > Len(ts) THEN s ELSE ApplyAll(ApplyUpd(s, ts[i].w.upd), ts, i + 1)

RECURSIVE AllSends(_, _)
AllSends(ts, i) ==
    IF i > Len(ts) THEN <<>> ELSE ts[i].w.sends \o AllSends(ts, i + 1)

RECURSIVE SetToSeq(_)
SetToSeq(S) ==
    IF S = {} THEN <<>>
    ELSE LET x == CHOOSE y \in S : TRUE IN <<x>> \o SetToSeq(S \ {x})

Triggered(ts) == (UNION {ts[i].w.trig : i \in DOMAIN ts}) \ {"END"}

(* The tasks of the next superstep: the Sends in task order, then one task per
   node some finished task has an edge to, however many tasks triggered it *)
NextTasks(ts) ==
    LET sends == AllSends(ts, 1)
        pulls == SetToSeq(Triggered(ts))
    IN  [i \in 1..Len(sends) |-> Task("fetch_file_content", sends[i])]
        \o [i \in 1..Len(pulls) |-> Task(pulls[i], NoArg)]

(* Task i of the superstep returns: its writes are kept until every task of the
   superstep has returned, then all are applied in task order and the next
   superstep is prepared; with no task to run the run ends. *)
Complete(i, w) ==
    LET ts == [tasks EXCEPT ![i].done = TRUE, ![i].w = w] IN
    /\ log' = Append(log, [node |-> tasks[i].node, step |-> step,
                           ok |-> TRUE])
    /\ IF \A j \in DOMAIN ts : ts[j].done
       THEN /\ state' = ApplyAll(state, ts, 1)
            /\ tasks' = NextTasks(ts)
            /\ status' = IF NextTasks(ts) = <<>> THEN "END" ELSE "running"
            /\ step' = step + 1
       ELSE /\ tasks' = ts
            /\ UNCHANGED <<state, status, step>>

(* Task i raises: the run is aborted and the superstep's writes are not applied *)
Raise(i) ==
    /\ log' = Append(log, [node |-> tasks[i].node, step |-> step,
                           ok |-> FALSE])
    /\ tasks' = <<>>
    /\ status' = "failed"
    /\ UNCHANGED <<state, step>>

Ready(i, n) ==
    /\ status = "running"
    /\ i \in DOMAIN tasks
    /\ tasks[i].node = n
    /\ ~tasks[i].done

----------------------------------------------------------------------------
(* graph.invoke(input) on the checkpointed thread: the input is written to the
   channels kept from the previous run, then START's branch picks the first node *)
invoke(repo) ==
    /\ status \in {"idle", "END", "failed"}
    /\ runs < MaxRuns
    /\ LET s == ApplyUpd(state, [messages |-> <<"human">>, repo |-> repo])
           dest == check_if_repo_onboarded(s, db)
       IN /\ state' = s
          /\ tasks' = [i \in 1..Len(SetToSeq(dest)) |-> Task(SetToSeq(dest)[i], NoArg)]
          /\ first' = [hadRow |-> \E r \in db : r.url = repo.url /\ r.src_path = repo.src_folder
                                                 /\ r.branch = repo.branch,
                       dest |-> dest]
    /\ status' = "running"
    /\ step' = 1
    /\ log' = <<>>
    /\ code_files' = <<>>
    /\ fetched' = <<>>
    /\ runs' = runs + 1
    /\ UNCHANGED <<db, wvars>>

(* The OnboardGraph subflow: inserts the repository row (AUTOINCREMENT id) *)
NewRepoId(d) == 1 + Cardinality(d)
OnboardGraph(d, repo) ==
    IF RepoRows(d, repo) # {} THEN d
    ELSE d \cup {[repo_id |-> NewRepoId(d), url |-> repo.url,
                  src_path |-> repo.src_folder, branch |-> repo.branch]}

onboard_repo(i) ==
    /\ Ready(i, "onboard_repo")
    /\ \/ /\ db' = OnboardGraph(db, state.repo)
          /\ LET row == CHOOSE r \in RepoRows(db', state.repo) : TRUE IN
             Complete(i, Writes([repo_id |-> row.repo_id], EdgeTargets("onboard_repo"), <<>>))
       \/ /\ Raise(i)
          /\ UNCHANGED db
    /\ UNCHANGED <<first, code_files, fetched, runs, wvars>>

localize_packages(i) ==
    /\ Ready(i, "localize_packages")
    /\ LET rows == RepoRows(db, state.repo)
           repo_id == IF state.repo_id # 0 THEN state.repo_id
                      ELSE IF rows # {} THEN (CHOOSE r \in rows : TRUE).repo_id ELSE 0
       IN IF repo_id = 0
          THEN \* return {"error": ...}: "error" is no channel of State
               Complete(i, Writes([error |-> "Repository not found in database"],
                                  EdgeTargets("localize_packages"), <<>>))
          ELSE \/ \E sugg \in SuggestedLists :
                    Complete(i, Writes([repo_id |-> repo_id,
                                        package_name_index |-> Some(PackageNames),
                                        package_suggestions |-> Some(sugg)],
                                       EdgeTargets("localize_packages"), <<>>))
               \/ Raise(i)
    /\ UNCHANGED <<db, first, code_files, fetched, runs, wvars>>

localize_files(i) ==
    /\ Ready(i, "localize_files")
    /\ IF state.package_suggestions.none \/ state.package_name_index.none
       THEN Raise(i)      \* AttributeError / TypeError on None
       ELSE IF ~(state.package_suggestions.v \subseteq state.package_name_index.v)
       THEN Raise(i)      \* KeyError: a suggested package is not in the index
       ELSE \/ \E files \in FileLists :
                 LET upd == [file_suggestions |-> Some(files)]
                     fresh == ApplyUpd(state, upd)
                 IN Complete(i, Writes(upd, EdgeTargets("localize_files"),
                                       continue_to_suggest_solution(fresh)))
            \/ Raise(i)
    /\ UNCHANGED <<db, first, code_files, fetched, runs, wvars>>

fetch_file_content(i) ==
    /\ Ready(i, "fetch_file_content")
    /\ \/ \E file_content \in Contents :
            /\ Complete(i, Writes([file_contents |->
                                      Items(<<[filepath |-> tasks[i].arg.filepath,
                                               content |-> file_content]>>)],
                                  EdgeTargets("fetch_file_content"), <<>>))
            /\ fetched' = [k \in DOMAIN fetched \cup {i} |->
                              IF k = i THEN file_content ELSE fetched[k]]
       \/ /\ Raise(i)
          /\ UNCHANGED fetched
    /\ UNCHANGED <<db, first, code_files, runs, wvars>>

(* next((fc.content for fc in file_contents if fc.filepath == filepath), None) *)
FirstContent(file_contents, filepath) ==
    LET hits == {k \in DOMAIN file_contents : file_contents[k].filepath = filepath} IN
    IF hits = {} THEN "None"
    ELSE file_contents[CHOOSE k \in hits : \A m \in hits : k <= m].content

CodeFiles(s) ==
    [k \in 1..Len(s.file_suggestions.v) |->
        [filepath |-> s.file_suggestions.v[k],
         content |-> FirstContent(s.file_contents, s.file_suggestions.v[k])]]

suggest_solution(i) ==
    /\ Ready(i, "suggest_solution")
    /\ IF state.file_suggestions.none
       THEN Raise(i) /\ UNCHANGED code_files
       ELSE \/ /\ code_files' = CodeFiles(state)
               /\ Complete(i, Writes([messages |-> <<"ai">>],
                                     EdgeTargets("suggest_solution"), <<>>))
            \/ /\ code_files' = CodeFiles(state)
               /\ Raise(i)
    /\ UNCHANGED <<db, first, fetched, runs, wvars>>

cleanup_keeps_file_contents(i) ==
    /\ Ready(i, "cleanup")
    /\ Complete(i, Writes([package_suggestions |-> NoneV,
                           package_name_index |-> NoneV,
                           file_suggestions |-> NoneV],
                          EdgeTargets("cleanup"), <<>>))
    /\ UNCHANGED <<db, first, code_files, fetched, runs, wvars>>

cleanup(i) ==
    /\ Ready(i, "cleanup")
    /\ Complete(i, Writes([package_suggestions |-> NoneV,
                           package_name_index |-> NoneV,
                           file_suggestions |-> NoneV,
                           file_contents |-> DeleteV],
                          EdgeTargets("cleanup"), <<>>))
    /\ UNCHANGED <<db, first, code_files, fetched, runs, wvars>>

----------------------------------------------------------------------------
RowOf(id, repo) ==
    [repo_id |-> id, url |-> repo.url, src_path |-> repo.src_folder, branch |-> repo.branch]

(* The repositories table before the first request: empty, or holding the
   row of the repository the requests are about *)
Tables == {{}, {RowOf(1, RepoA)}}

GIdle ==
    /\ state = InitialState
    /\ tasks = <<>>
    /\ status = "idle"
    /\ step = 0
    /\ log = <<>>
    /\ first = [hadRow |-> FALSE, dest |-> {}]
    /\ code_files = <<>>
    /\ fetched = <<>>
    /\ runs = 0

----------------------------------------------------------------------------
(***************************************************************************)
(* The Flask application of integration/github_webhook.py.                 *)
(* Python strings that the code lowers, searches, joins or tests for a     *)
(* prefix are tuples of characters; a JSON member is a record with         *)
(* k = "missing" (no such key), "null" (JSON null) or "val" (value v).     *)
(***************************************************************************)
(* Python string literals, as tuples of characters *)
Str_Ask_at_Heurisdev == <<"A", "s", "k", " ", "@", "H", "e", "u", "r", "i", "s", "d", "e", "v">>
Str_HEURISDEV == <<"H", "E", "U", "R", "I", "S", "D", "E", "V">>
Str_HeurisDev == <<"H", "e", "u", "r", "i", "s", "D", "e", "v">>
Str_NL == <<"\n">>
Str_None == <<"N", "o", "n", "e">>
Str_alice == <<"a", "l", "i", "c", "e">>
Str_at_heurisdev_fix == <<"@", "h", "e", "u", "r", "i", "s", "d", "e", "v", " ", "f", "i", "x">>
Str_bob == <<"b", "o", "b">>
Str_bug == <<"b", "u", "g">>
Str_cc_at_HeurisDev == <<"c", "c", " ", "@", "H", "e", "u", "r", "i", "s", "D", "e", "v">>
Str_dev == <<"d", "e", "v">>
Str_docs_c_py == <<"d", "o", "c", "s", "/", "c", ".", "p", "y">>
Str_docs_d_py == <<"d", "o", "c", "s", "/", "d", ".", "p", "y">>
Str_docs_x_py == <<"d", "o", "c", "s", "/", "x", ".", "p", "y">>
Str_heuris == <<"h", "e", "u", "r", "i", "s">>
Str_heurisdev == <<"h", "e", "u", "r", "i", "s", "d", "e", "v">>
Str_hi_heurisdev == <<"h", "i", " ", "h", "e", "u", "r", "i", "s", "d", "e", "v">>
Str_main == <<"m", "a", "i", "n">>
Str_refs_heads == <<"r", "e", "f", "s", "/", "h", "e", "a", "d", "s", "/">>
Str_refs_heads_None == <<"r", "e", "f", "s", "/", "h", "e", "a", "d", "s", "/", "N", "o", "n", "e">>
Str_refs_heads_dev == <<"r", "e", "f", "s", "/", "h", "e", "a", "d", "s", "/", "d", "e", "v">>
Str_refs_heads_main == <<"r", "e", "f", "s", "/", "h", "e", "a", "d", "s", "/", "m", "a", "i", "n">>
Str_refs_tags_main == <<"r", "e", "f", "s", "/", "t", "a", "g", "s", "/", "m", "a", "i", "n">>
Str_src == <<"s", "r", "c">>
Str_src_a_py == <<"s", "r", "c", "/", "a", ".", "p", "y">>
Str_src_b_py == <<"s", "r", "c", "/", "b", ".", "p", "y">>
Str_src_c_py == <<"s", "r", "c", "/", "c", ".", "p", "y">>
Str_src_d_txt == <<"s", "r", "c", "/", "d", ".", "t", "x", "t">>
Str_src_e_py == <<"s", "r", "c", "/", "e", ".", "p", "y">>
Str_src_readme_md == <<"s", "r", "c", "/", "r", "e", "a", "d", "m", "e", ".", "m", "d">>
Str_srcold_b_py == <<"s", "r", "c", "o", "l", "d", "/", "b", ".", "p", "y">>
Str_thanks == <<"t", "h", "a", "n", "k", "s">>

SE_AGENT_USER_ID == Str_heurisdev

(* ... of a string of characters or a list *)
Missing == [k |-> "missing", v |-> <<>>]
Null == [k |-> "null", v |-> <<>>]
(* ... of an atomic string (a URL, an action name) *)
MissingS == [k |-> "missing", v |-> ""]
NullS == [k |-> "null", v |-> ""]
(* ... of a JSON object *)
EmptyObj == [empty |-> TRUE]
MissingD == [k |-> "missing", v |-> EmptyObj]
NullD == [k |-> "null", v |-> EmptyObj]
Val(x) == [k |-> "val", v |-> x]

Has(f) == f.k # "missing"                    \* "key" in data
GetD(f, d) == IF f.k = "missing" THEN Val(d) ELSE f     \* data.get("key", d)

UpperChars == <<"A", "B", "C", "D", "E", "F", "G", "H", "I", "J", "K", "L", "M",
                "N", "O", "P", "Q", "R", "S", "T", "U", "V", "W", "X", "Y", "Z">>
LowerChars == <<"a", "b", "c", "d", "e", "f", "g", "h", "i", "j", "k", "l", "m",
                "n", "o", "p", "q", "r", "s", "t", "u", "v", "w", "x", "y", "z">>

(* str.lower() *)
LowerChar(c) ==
    IF \E k \in DOMAIN UpperChars : UpperChars[k] = c
    THEN LowerChars[CHOOSE k \in DOMAIN UpperChars : UpperChars[k] = c]
    ELSE c
Lower(s) == [k \in DOMAIN s |-> LowerChar(s[k])]

(* sub in s *)
Contains(s, sub) ==
    \E k \in 0..(Len(s) - Len(sub)) : SubSeq(s, k + 1, k + Len(sub)) = sub

(* s.startswith(p), s.endswith(p) *)
StartsWith(s, p) == Len(p) <= Len(s) /\ SubSeq(s, 1, Len(p)) = p
EndsWith(s, p) == Len(p) <= Len(s) /\ SubSeq(s, Len(s) - Len(p) + 1, Len(s)) = p

(* f"{x}": str() of a value that may be None *)
Fmt(f) == IF f.k = "val" THEN f.v ELSE Str_None

(* jsonify({...}), code *)
Response(st, code, reason) == [status |-> st, code |-> code, reason |-> reason]
Result(h, r, c) == [handler |-> h, resp |-> r, calls |-> c]
Unhandled == Response("unhandled", 500, "exception left the view function")
Error500 == Response("error", 500, "exception")

EmptyDict == [keys |-> {}, modified |-> <<>>, deleted |-> <<>>]

(* A call the view function made, and whether it raised *)
Call(fn, raised) == [fn |-> fn, raised |-> raised]
UpdateCall(repo, event, raised) ==
    [fn |-> "update_agent_knowledge", raised |-> raised, repo |-> repo, event |-> event]

(* update_agent_knowledge raises when the runtime fails; a repo-onboard with no
   branch string cannot be stored (repositories.branch is TEXT NOT NULL) *)
update_agent_knowledge(repo, event, ext) ==
    ext.uak = "raise" \/ (event.event_type = "repo-onboard" /\ repo.branch.k # "val")

(* get_repo_info: the repository record of the payload's repository.html_url *)
get_repo_info(data, st) ==
    IF data.repository.k # "val" \/ data.repository.v \notin DOMAIN st
       \/ st[data.repository.v].k # "val"
    THEN [ok |-> FALSE, repo |-> <<>>]
    ELSE [ok |-> TRUE,
          repo |-> [url |-> data.repository.v,
                    src_folder |-> st[data.repository.v].v.src_path,
                    branch |-> st[data.repository.v].v.branch]]

should_process_event(text) ==
    IF text.k # "val" \/ text.v = <<>> THEN FALSE
    ELSE Contains(Lower(text.v), SE_AGENT_USER_ID)

ignore_if_not_mentioned(text) == ~should_process_event(text)

is_valid_file(filepath, repo) == StartsWith(filepath, repo.src_folder)

Filter(seq, repo) == SelectSeq(seq, LAMBDA f : is_valid_file(f, repo))

RECURSIVE RenamedModified(_, _, _)
RenamedModified(renamed, repo, i) ==
    IF i > Len(renamed) THEN <<>>
    ELSE (IF is_valid_file(renamed[i].filename, repo) THEN <<renamed[i].filename>> ELSE <<>>)
         \o RenamedModified(renamed, repo, i + 1)

RECURSIVE RenamedDeleted(_, _, _)
RenamedDeleted(renamed, repo, i) ==
    IF i > Len(renamed) THEN <<>>
    ELSE (IF renamed[i].isdict /\ renamed[i].previous_filename # <<>>
             /\ is_valid_file(renamed[i].previous_filename, repo)
          THEN <<renamed[i].previous_filename>> ELSE <<>>)
         \o RenamedDeleted(renamed, repo, i + 1)

compute_delta(head_commit, repo) ==
    [keys |-> {"modified", "deleted"},
     modified |-> Filter(head_commit.added, repo) \o Filter(head_commit.modified, repo)
                  \o RenamedModified(head_commit.renamed, repo, 1),
     deleted |-> Filter(head_commit.removed, repo)
                 \o RenamedDeleted(head_commit.renamed, repo, 1)]

(* Mutant: the default branch hard-coded instead of the recorded branch *)
onboarded_ref_main(repo) == Str_refs_heads \o Str_main

(* f"refs/heads/{repo['branch']}" *)
onboarded_ref(repo) == Str_refs_heads \o Fmt(repo.branch)

handle_push_event(data, st, ext) ==
    LET info == get_repo_info(data, st) IN
    IF ~info.ok THEN Result("push", Error500, <<>>)
    ELSE IF data.ref.v # onboarded_ref(info.repo)
    THEN Result("push", Response("ignored", 200, "Push not to onboarded branch"), <<>>)
    ELSE IF data.head_commit.k # "val" THEN Result("push", Error500, <<>>)
    ELSE LET delta == compute_delta(data.head_commit.v, info.repo)
             event == [event_type |-> "repo-update", meta_data |-> delta]
             raised == update_agent_knowledge(info.repo, event, ext)
             call == UpdateCall(info.repo, event, raised)
         IN IF raised THEN Result("push", Error500, <<call>>)
            ELSE Result("push", Response("processed push", 200, ""), <<call>>)

RECURSIVE AnyReviewer(_, _)
(* any(r.get("login", "").lower() == SE_AGENT_USER_ID for r in reviewers) *)
AnyReviewer(reviewers, i) ==
    IF i > Len(reviewers) THEN "no"
    ELSE LET login == GetD(reviewers[i].login, <<>>) IN
         IF login.k = "null" THEN "raise"
         ELSE IF Lower(login.v) = SE_AGENT_USER_ID THEN "yes"
         ELSE AnyReviewer(reviewers, i + 1)

(* Mutant: requested_reviewers is consulted when requested_reviewer does not match *)
ReviewerCheck_falls_through(data) ==
    IF Has(data.requested_reviewer) /\ data.requested_reviewer.k = "val"
       /\ GetD(data.requested_reviewer.v.login, <<>>).k = "val"
       /\ Lower(GetD(data.requested_reviewer.v.login, <<>>).v) = SE_AGENT_USER_ID
    THEN "yes"
    ELSE IF Has(data.requested_reviewers)
    THEN IF data.requested_reviewers.k = "null" THEN "raise"
         ELSE AnyReviewer(data.requested_reviewers.v, 1)
    ELSE IF Has(data.requested_reviewer) THEN "no" ELSE "none"

(* The reviewer test of handle_pull_request_event: "yes" | "no" | "none" | "raise" *)
ReviewerCheck(data) ==
    IF Has(data.requested_reviewer)
    THEN IF data.requested_reviewer.k = "null" THEN "no"
         ELSE LET login == GetD(data.requested_reviewer.v.login, <<>>) IN
              IF login.k = "null" THEN "raise"
              ELSE IF Lower(login.v) # SE_AGENT_USER_ID THEN "no" ELSE "yes"
    ELSE IF Has(data.requested_reviewers)
    THEN IF data.requested_reviewers.k = "null" THEN "raise"
         ELSE AnyReviewer(data.requested_reviewers.v, 1)
    ELSE "none"

handle_pull_request_event(data, st, tok, ext) ==
    IF data.action.k # "val" \/ data.action.v # "review_requested"
    THEN Result("pull_request", Response("ignored", 200, "Action not supported"), <<>>)
    ELSE LET chk == ReviewerCheck(data)
             info == get_repo_info(data, st)
         IN
         IF chk = "raise" THEN Result("pull_request", Unhandled, <<>>)
         ELSE IF chk = "no"
         THEN Result("pull_request", Response("ignored", 200, "Not assigned to se-agent"), <<>>)
         ELSE IF chk = "none"
         THEN Result("pull_request", Response("ignored", 200, "No reviewer information"), <<>>)
         ELSE IF ~info.ok THEN Result("pull_request", Unhandled, <<>>)
         ELSE IF ext.agent = "raise"
         THEN Result("pull_request", Error500, <<Call("review_pr", TRUE)>>)
         ELSE IF ext.agent = "empty"
         THEN Result("pull_request", Response("processed", 200, ""),
                     <<Call("review_pr", FALSE)>>)
         ELSE IF ~tok THEN Result("pull_request", Error500, <<Call("review_pr", FALSE)>>)
         ELSE IF ext.gh = "raise"
         THEN Result("pull_request", Error500,
                     <<Call("review_pr", FALSE), Call("post_pr_review", TRUE)>>)
         ELSE Result("pull_request", Response("processed", 200, ""),
                     <<Call("review_pr", FALSE), Call("post_pr_review", FALSE)>>)

(* apply_agent_and_respond, after the calls the handler has made so far *)
apply_agent_and_respond(h, before, ext) ==
    IF ext.agent = "raise" THEN Result(h, Error500, before \o <<Call("apply_agent", TRUE)>>)
    ELSE IF ext.agent = "empty"
    THEN Result(h, Response("processed issue", 200, ""),
                before \o <<Call("apply_agent", FALSE)>>)
    ELSE IF ext.gh = "raise"
    THEN Result(h, Error500,
                before \o <<Call("apply_agent", FALSE), Call("post_issue_comment", TRUE)>>)
    ELSE Result(h, Response("processed issue", 200, ""),
                before \o <<Call("apply_agent", FALSE), Call("post_issue_comment", FALSE)>>)

(* Mutant: the author's login compared without lowering it *)
is_self_comment_case_sensitive(login) == login = SE_AGENT_USER_ID

(* comment.get("user", {}).get("login", "").lower() == SE_AGENT_USER_ID *)
is_self_comment(login) == Lower(login) = SE_AGENT_USER_ID

handle_issue_comment_event(data, st, tok, ext) ==
    LET h == "issue_comment"
        comment == data.comment
        info == get_repo_info(data, st)
    IN
    IF comment.k # "val" THEN Result(h, Error500, <<>>)
    ELSE LET user == comment.v.user
             login == IF user.k = "missing" THEN Val(<<>>) ELSE GetD(user.v.login, <<>>)
             comment_body == GetD(comment.v.body, <<>>)
         IN
         IF user.k = "null" \/ login.k = "null" THEN Result(h, Error500, <<>>)
         ELSE IF is_self_comment(login.v)
         THEN Result(h, Response("ignored", 200, "Self-comment ignored"), <<>>)
         ELSE IF ignore_if_not_mentioned(comment_body)
         THEN Result(h, Response("ignored", 200, "Agent not mentioned"), <<>>)
         ELSE IF comment_body.k # "val" \/ comment_body.v = <<>>
         THEN Result(h, Response("ignored", 200, "Empty comment"), <<>>)
         ELSE IF ~info.ok THEN Result(h, Error500, <<>>)
         ELSE IF ~tok THEN Result(h, Error500, <<>>)
         ELSE IF ext.gh = "raise"
         THEN Result(h, Error500, <<Call("get_issue_comments", TRUE)>>)
         ELSE apply_agent_and_respond(h, <<Call("get_issue_comments", FALSE)>>, ext)

handle_issue_event(data, st, tok, ext) ==
    LET h == "issue"
        info == get_repo_info(data, st)
        issue == data.issue.v
        issue_title == GetD(issue.title, <<>>)
        issue_description == GetD(issue.body, <<>>)
        combined_text == Val(Fmt(issue_title) \o Str_NL \o Fmt(issue_description))
    IN
    IF ~info.ok THEN Result(h, Error500, <<>>)
    ELSE IF ignore_if_not_mentioned(combined_text)
    THEN Result(h, Response("ignored", 200, "Agent not mentioned"), <<>>)
    ELSE IF ~tok THEN Result(h, Error500, <<>>)
    ELSE apply_agent_and_respond(h, <<>>, ext)

Truthy(f) == f.k = "val" /\ f.v # <<>>

(* Mutant: the pull_request test made before the push test *)
webhook_pull_request_first(data, st, tok, ext) ==
    IF Has(data.pull_request) THEN handle_pull_request_event(data, st, tok, ext)
    ELSE IF Has(data.head_commit) /\ Truthy(data.ref) THEN handle_push_event(data, st, ext)
    ELSE IF Has(data.issue)
    THEN IF Has(data.comment)
         THEN IF data.action.k # "val" \/ data.action.v # "created"
              THEN Result("none", Response("ignored", 200, "Action not supported"), <<>>)
              ELSE handle_issue_comment_event(data, st, tok, ext)
         ELSE IF data.action.k # "val" \/ data.action.v # "opened"
              THEN Result("none", Response("ignored", 200, "Action not supported"), <<>>)
              ELSE handle_issue_event(data, st, tok, ext)
    ELSE Result("none", Response("ignored", 200, "Event type not supported"), <<>>)

webhook(data, st, tok, ext) ==
    IF Has(data.head_commit) /\ Truthy(data.ref) THEN handle_push_event(data, st, ext)
    ELSE IF Has(data.pull_request) THEN handle_pull_request_event(data, st, tok, ext)
    ELSE IF Has(data.issue)
    THEN IF Has(data.comment)
         THEN IF data.action.k # "val" \/ data.action.v # "created"
              THEN Result("none", Response("ignored", 200, "Action not supported"), <<>>)
              ELSE handle_issue_comment_event(data, st, tok, ext)
         ELSE IF data.action.k # "val" \/ data.action.v # "opened"
              THEN Result("none", Response("ignored", 200, "Action not supported"), <<>>)
              ELSE handle_issue_event(data, st, tok, ext)
    ELSE Result("none", Response("ignored", 200, "Event type not supported"), <<>>)

(* Mutant: branch read with data["branch"], so that a request without it is refused *)
onboard_branch_required(data, ext) ==
    IF ~Has(data.repo_url) \/ ~Has(data.src_folder) \/ ~Has(data.branch)
    THEN Result("none", Response("error", 400, "Missing required field"), <<>>)
    ELSE LET repo == [url |-> data.repo_url.v,
                      src_folder |-> data.src_folder.v,
                      branch |-> data.branch]
             event == [event_type |-> "repo-onboard", meta_data |-> EmptyDict]
             raised == update_agent_knowledge(repo, event, ext)
         IN IF raised THEN Result("none", Error500, <<UpdateCall(repo, event, TRUE)>>)
            ELSE Result("none", Response("onboarded", 200, ""),
                        <<UpdateCall(repo, event, FALSE)>>)

onboard(data, ext) ==
    IF ~Has(data.repo_url) \/ ~Has(data.src_folder)
    THEN Result("none", Response("error", 400, "Missing required field"), <<>>)
    ELSE LET repo == [url |-> data.repo_url.v,
                      src_folder |-> data.src_folder.v,
                      branch |-> GetD(data.branch, Str_main)]
             event == [event_type |-> "repo-onboard", meta_data |-> EmptyDict]
             raised == update_agent_knowledge(repo, event, ext)
         IN IF raised THEN Result("none", Error500, <<UpdateCall(repo, event, TRUE)>>)
            ELSE Result("none", Response("onboarded", 200, ""),
                        <<UpdateCall(repo, event, FALSE)>>)

----------------------------------------------------------------------------
(* Requests *)
UrlA == "https://github.com/o/a"
UrlB == "https://github.com/o/b"
Repositories == {MissingS, Val(UrlA), Val(UrlB)}

Renamed(new, prev) == [isdict |-> TRUE, filename |-> new, previous_filename |-> prev]
RenamedStr(name) == [isdict |-> FALSE, filename |-> name, previous_filename |-> <<>>]

Commits ==
    [added : {<<>>, <<Str_src_a_py>>, <<Str_src_readme_md, Str_docs_x_py>>},
     modified : {<<>>, <<Str_srcold_b_py, Str_src_b_py>>},
     removed : {<<>>, <<Str_src_a_py, Str_docs_x_py>>},
     renamed : {<<>>, <<Renamed(Str_src_c_py, Str_docs_c_py)>>,
                <<Renamed(Str_docs_d_py, Str_src_d_txt), RenamedStr(Str_src_e_py)>>}]

Commit0 == [added |-> <<Str_src_a_py>>, modified |-> <<>>, removed |-> <<>>, renamed |-> <<>>]

Refs == {Missing, Val(<<>>), Val(Str_refs_heads_main), Val(Str_refs_heads_dev),
         Val(Str_refs_heads_None), Val(Str_refs_tags_main)}

Actions == {MissingS, Val("opened"), Val("created"), Val("review_requested"), Val("edited")}

User(login) == Val([login |-> login])
Logins == {Missing, Null, Val(Str_heurisdev), Val(Str_HeurisDev), Val(Str_alice)}
Reviewers == {MissingD, NullD} \cup {User(l) : l \in Logins}
ReviewerLists ==
    {Missing, Null, Val(<<>>),
     Val(<<[login |-> Val(Str_alice)], [login |-> Val(Str_HEURISDEV)]>>),
     Val(<<[login |-> Val(Str_bob)], [login |-> Missing]>>),
     Val(<<[login |-> Null], [login |-> Val(Str_heurisdev)]>>),
     Val(<<[login |-> Val(Str_heurisdev)], [login |-> Null]>>)}

Users == {MissingD, NullD} \cup {User(l) : l \in Logins \ {Missing}}
Bodies == {Missing, Null, Val(<<>>), Val(Str_thanks), Val(Str_at_heurisdev_fix),
           Val(Str_cc_at_HeurisDev)}
Comments == {NullD} \cup {Val(c) : c \in [user : Users, body : Bodies]}
Comment0 == Val([user |-> User(Val(Str_alice)), body |-> Val(Str_at_heurisdev_fix)])

Issues ==
    {Val(i) : i \in [title : {Val(Str_bug), Val(Str_Ask_at_Heurisdev), Null},
                     body : {Missing, Null, Val(Str_hi_heurisdev)}]}
Issue0 == Val([title |-> Val(Str_bug), body |-> Val(Str_hi_heurisdev)])
Issue1 == Val([title |-> Val(Str_heuris), body |-> Val(Str_dev)])

PullRequest0 == Val([number |-> 7])

PushData ==
    [head_commit : {NullD} \cup {Val(c) : c \in Commits}, ref : Refs,
     pull_request : {MissingD}, issue : {MissingD}, comment : {MissingD}, action : {MissingS},
     requested_reviewer : {MissingD}, requested_reviewers : {Missing},
     repository : Repositories]

PullRequestData ==
    [head_commit : {MissingD}, ref : {Missing, Val(Str_refs_heads_main)},
     pull_request : {PullRequest0}, issue : {MissingD}, comment : {MissingD},
     action : {MissingS, Val("opened"), Val("review_requested")},
     requested_reviewer : Reviewers, requested_reviewers : ReviewerLists,
     repository : Repositories]

IssueData ==
    [head_commit : {MissingD}, ref : {Missing}, pull_request : {MissingD},
     issue : Issues \cup {Issue1}, comment : {MissingD},
     action : Actions, requested_reviewer : {MissingD}, requested_reviewers : {Missing},
     repository : Repositories]

IssueCommentData ==
    [head_commit : {MissingD}, ref : {Missing}, pull_request : {MissingD},
     issue : {Issue0, Issue1}, comment : Comments,
     action : {Val("created"), Val("edited"), Val("opened")},
     requested_reviewer : {MissingD}, requested_reviewers : {Missing},
     repository : Repositories]

(* Payloads with the members of several event types at once *)
MixedData ==
    [head_commit : {MissingD, NullD, Val(Commit0)},
     ref : {Missing, Null, Val(<<>>), Val(Str_refs_heads_main)},
     pull_request : {MissingD, PullRequest0}, issue : {MissingD, Issue0},
     comment : {MissingD, Comment0}, action : Actions,
     requested_reviewer : {MissingD, User(Val(Str_heurisdev))},
     requested_reviewers : {Missing},
     repository : {Val(UrlA)}]

WebhookData == PushData \cup PullRequestData \cup IssueData \cup IssueCommentData
               \cup MixedData

OnboardData ==
    [repo_url : {MissingS, Val(UrlA)}, src_folder : {Missing, Val(Str_src)},
     branch : {Missing, Null, Val(Str_main), Val(Str_dev)}]

(* What the agent runtime and GitHub do when called *)
Exts == [uak : {"ok", "raise"}, agent : {"ai", "empty", "raise"}, gh : {"ok", "raise"}]

NoReq == [endpoint |-> "", data |-> EmptyObj]
NoResp == Response("", 0, "")
EmptyStore == [u \in {UrlA} |-> MissingD]

PostWebhook(data) ==
    /\ phase = "idle"
    /\ req' = [endpoint |-> "/webhook", data |-> data]
    /\ phase' = "received"
    /\ UNCHANGED <<store, github_token, resp, calls, handler, gvars>>

PostOnboard(data) ==
    /\ phase = "idle"
    /\ req' = [endpoint |-> "/onboard", data |-> data]
    /\ phase' = "received"
    /\ UNCHANGED <<store, github_token, resp, calls, handler, gvars>>

ServeWebhook ==
    /\ phase = "received"
    /\ req.endpoint = "/webhook"
    /\ \E ext \in Exts :
          LET r == webhook(req.data, store, github_token, ext) IN
          /\ resp' = r.resp
          /\ calls' = r.calls
          /\ handler' = r.handler
    /\ phase' = "responded"
    /\ UNCHANGED <<store, github_token, req, gvars>>

(* update_agent_knowledge(repo, "repo-onboard") returning: the repository is in
   the store; a URL onboarded before keeps its record or gets the new one *)
Onboarded(st, repo) ==
    {[st EXCEPT ![repo.url] = Val([src_path |-> repo.src_folder, branch |-> repo.branch])]}
    \cup (IF st[repo.url].k = "val" THEN {st} ELSE {})

ServeOnboard ==
    /\ phase = "received"
    /\ req.endpoint = "/onboard"
    /\ \E ext \in Exts :
          LET r == onboard(req.data, ext) IN
          /\ resp' = r.resp
          /\ calls' = r.calls
          /\ handler' = r.handler
          /\ IF r.resp.status = "onboarded"
             THEN store' \in Onboarded(store, r.calls[1].repo)
             ELSE UNCHANGED store
    /\ phase' = "responded"
    /\ UNCHANGED <<github_token, req, gvars>>

(* The response is sent; the server waits for the next request *)
Respond ==
    /\ phase = "responded"
    /\ phase' = "idle"
    /\ req' = NoReq
    /\ resp' = NoResp
    /\ calls' = <<>>
    /\ handler' = "none"
    /\ UNCHANGED <<store, github_token, gvars>>

WIdle ==
    /\ store = EmptyStore
    /\ phase = "idle"
    /\ req = NoReq
    /\ resp = NoResp
    /\ calls = <<>>
    /\ handler = "none"

WebhookInit ==
    /\ WIdle
    /\ github_token \in BOOLEAN
    /\ GIdle
    /\ db = {}

WebhookNext ==
    \/ \E data \in WebhookData : PostWebhook(data)
    \/ \E data \in OnboardData : PostOnboard(data)
    \/ ServeWebhook
    \/ ServeOnboard
    \/ Respond

WebhookSpec == WebhookInit /\ [][WebhookNext]_vars

----------------------------------------------------------------------------
Next ==
    \/ \E repo \in Repos : invoke(repo)
    \/ \E i \in 1..(MaxFiles + 1) : onboard_repo(i)
    \/ \E i \in 1..(MaxFiles + 1) : localize_packages(i)
    \/ \E i \in 1..(MaxFiles + 1) : localize_files(i)
    \/ \E i \in 1..(MaxFiles + 1) : fetch_file_content(i)
    \/ \E i \in 1..(MaxFiles + 1) : suggest_solution(i)
    \/ \E i \in 1..(MaxFiles + 1) : cleanup(i)

Init ==
    /\ db \in Tables
    /\ GIdle
    /\ WIdle
    /\ github_token = FALSE

Spec == Init /\ [][Next]_vars

TypeOK == status \in {"idle", "running", "END", "failed"}

----------------------------------------------------------------------------
(* Properties of the assist graph (specification Spec) *)

Count(n) == Cardinality({k \in DOMAIN log : log[k].node = n})
Ran(n) == \E k \in DOMAIN log : log[k].node = n /\ log[k].ok

Rank(n) ==
    CASE n = "onboard_repo" -> 1
      [] n = "localize_packages" -> 2
      [] n = "localize_files" -> 3
      [] n = "fetch_file_content" -> 4
      [] n = "suggest_solution" -> 5
      [] n = "cleanup" -> 6

(* Nodes never run out of order: a node of a later stage runs in a later
   superstep than every node of an earlier stage. *)
OrderInv ==
    \A j, k \in DOMAIN log :
        j < k => /\ Rank(log[j].node) <= Rank(log[k].node)
                 /\ Rank(log[j].node) < Rank(log[k].node) => log[j].step < log[k].step

(* C1: in every run the steps run in the order onboarded check, localize_packages,
   localize_files, fetch_file_content, suggest_solution, cleanup, none starting
   before the one before it has completed, and a run that reaches END has run
   cleanup as its last node. *)
C1_StepsInOrder ==
    /\ OrderInv
    /\ status = "END" => log # <<>> /\ log[Len(log)].node = "cleanup"

(* C2: onboard_repo is the first node of a run iff the repositories table held no
   row for state.repo when the run started, and localize_packages is the first
   node otherwise; after onboard_repo the next node is localize_packages; and
   onboard_repo runs at most once per run. *)
C2_OnboardIffNoRow ==
    status # "idle" =>
        /\ first.dest = (IF first.hadRow THEN {"localize_packages"} ELSE {"onboard_repo"})
        /\ (log = <<>> /\ status = "running") =>
               /\ Len(tasks) = 1
               /\ tasks[1].node \in first.dest
        /\ log # <<>> => log[1].node \in first.dest
        /\ Count("onboard_repo") <= 1
        /\ \A k \in DOMAIN log : log[k].node = "onboard_repo" => k = 1
        /\ (log # <<>> /\ log[1].node = "onboard_repo" /\ log[1].ok) =>
               /\ Len(log) = 1 => (Len(tasks) = 1 /\ tasks[1].node = "localize_packages")
               /\ Len(log) > 1 => log[2].node = "localize_packages"
        /\ Ran("localize_packages") =>
               \A k \in DOMAIN log : log[k].node = "localize_packages" =>
                   k = (IF first.hadRow THEN 1 ELSE 2)

C2_Witness ==
    /\ runs = 2
    /\ ~first.hadRow
    /\ Len(log) >= 2
    /\ log[1].node = "onboard_repo"
    /\ log[2].node = "localize_packages"
    /\ log[2].ok

(* The fan-out and the barrier: one fetch task per suggested file with its
   filepath and the run's repo, one FileContent per finished task, and
   suggest_solution at most once and only after all of them. *)
FanOutInv ==
    /\ (tasks # <<>> /\ tasks[1].node = "fetch_file_content") =>
           /\ ~state.file_suggestions.none
           /\ Len(tasks) = Len(state.file_suggestions.v)
           /\ \A i \in DOMAIN tasks :
                 /\ tasks[i].node = "fetch_file_content"
                 /\ tasks[i].arg = [filepath |-> state.file_suggestions.v[i],
                                    repo |-> state.repo]
                 /\ tasks[i].done =>
                        /\ Len(tasks[i].w.upd.file_contents.items) = 1
                        /\ tasks[i].w.upd.file_contents.items[1].filepath
                               = tasks[i].arg.filepath
    /\ Count("suggest_solution") <= 1
    /\ (tasks # <<>> /\ tasks[1].node = "suggest_solution") =>
           /\ Count("fetch_file_content") = Len(state.file_suggestions.v)
           /\ \A k \in DOMAIN log : log[k].ok

(* C3: one fetch_file_content task per entry of file_suggestions.files, carrying
   that entry's filepath and the run's repo; each task adds one FileContent for its
   filepath; suggest_solution runs exactly once, after all of these tasks. *)
C3_FanOutFanIn ==
    /\ FanOutInv
    /\ (status = "END" /\ Ran("localize_files")) => Count("suggest_solution") = 1

(* C4: a run in which no node raises runs suggest_solution, which adds the
   response message, and then cleanup, before it reaches END, whatever the number
   of files localize_files suggested. *)
C4_EndAfterSolutionAndCleanup ==
    status = "END" =>
        /\ \E j, k \in DOMAIN log :
              /\ j < k
              /\ log[j].node = "suggest_solution"
              /\ log[k].node = "cleanup"
              /\ k = Len(log)
        /\ state.messages # <<>>
        /\ state.messages[Len(state.messages)] = "ai"

(* The part of C3 and C4 that holds: a run that reaches END after at least one
   file was suggested has run suggest_solution once and cleanup last. *)
NonEmptyRunCompletes ==
    (status = "END" /\ Count("fetch_file_content") > 0) =>
        /\ Count("suggest_solution") = 1
        /\ log[Len(log)].node = "cleanup"
        /\ state.messages[Len(state.messages)] = "ai"

----------------------------------------------------------------------------
(* Properties of the endpoints (specification WebhookSpec) *)

Served(endpoint) == phase = "responded" /\ req.endpoint = endpoint

Called(fn) == \E k \in DOMAIN calls : calls[k].fn = fn
ActionIs(data, a) == data.action.k = "val" /\ data.action.v = a
NonEmptyRef(data) == data.ref.k = "val" /\ Len(data.ref.v) > 0

(* The handler the payload's members select, in the priority of the claim *)
ExpectedHandler(data) ==
    CASE data.head_commit.k # "missing" /\ NonEmptyRef(data) -> "push"
      [] ~(data.head_commit.k # "missing" /\ NonEmptyRef(data))
         /\ data.pull_request.k # "missing" -> "pull_request"
      [] ~(data.head_commit.k # "missing" /\ NonEmptyRef(data))
         /\ data.pull_request.k = "missing" /\ data.issue.k # "missing"
         /\ data.comment.k # "missing" /\ ActionIs(data, "created") -> "issue_comment"
      [] ~(data.head_commit.k # "missing" /\ NonEmptyRef(data))
         /\ data.pull_request.k = "missing" /\ data.issue.k # "missing"
         /\ data.comment.k = "missing" /\ ActionIs(data, "opened") -> "issue"
      [] OTHER -> "none"

(* C5: /webhook dispatches a payload to exactly one outcome: the push handler when
   head_commit is present and ref non-empty; else the pull-request handler when
   pull_request is present; else, with issue present, the comment handler for a
   created comment and the issue handler for an opened issue, any other action
   being answered ignored/200 with no handler run; else ignored, 'Event type not
   supported'. *)
C5_Dispatch ==
    Served("/webhook") =>
        /\ handler = ExpectedHandler(req.data)
        /\ handler = "none" =>
               /\ resp.status = "ignored"
               /\ resp.code = 200
               /\ calls = <<>>
               /\ resp.reason = (IF req.data.issue.k # "missing"
                                    /\ req.data.pull_request.k = "missing"
                                    /\ ~(req.data.head_commit.k # "missing"
                                         /\ NonEmptyRef(req.data))
                                 THEN "Action not supported"
                                 ELSE "Event type not supported")
        /\ Called("update_agent_knowledge") => handler = "push"
        /\ (Called("review_pr") \/ Called("post_pr_review")) => handler = "pull_request"
        /\ (Called("apply_agent") \/ Called("post_issue_comment")) =>
               handler \in {"issue", "issue_comment"}
        /\ Called("get_issue_comments") => handler = "issue_comment"

C5_Witness ==
    /\ Served("/webhook")
    /\ req.data.head_commit.k = "val"
    /\ req.data.ref = Val(<<>>)
    /\ req.data.pull_request.k = "val"
    /\ req.data.issue.k = "val"
    /\ handler = "pull_request"
    /\ Called("review_pr")

Str_dot_py == <<".", "p", "y">>
Str_slash == <<"/">>

InsideFolder(path, folder) ==
    StartsWith(path, IF EndsWith(folder, Str_slash) THEN folder ELSE folder \o Str_slash)

(* C6: every path in the 'modified' and 'deleted' lists compute_delta returns is
   inside the repo's src_folder and ends with '.py'. *)
C6_DeltaOnlySrcPy ==
    Served("/webhook") =>
        \A k \in DOMAIN calls :
            (calls[k].fn = "update_agent_knowledge"
             /\ calls[k].event.event_type = "repo-update") =>
                LET delta == calls[k].event.meta_data
                    paths == {delta.modified[j] : j \in DOMAIN delta.modified}
                             \cup {delta.deleted[j] : j \in DOMAIN delta.deleted}
                IN \A f \in paths : /\ InsideFolder(f, calls[k].repo.src_folder)
                                    /\ EndsWith(f, Str_dot_py)

RepoUpdateCalled ==
    \E k \in DOMAIN calls : /\ calls[k].fn = "update_agent_knowledge"
                            /\ calls[k].event.event_type = "repo-update"

RecordedBranch(data) ==
    IF data.repository.k = "val" /\ data.repository.v \in DOMAIN store
       /\ store[data.repository.v].k = "val"
    THEN store[data.repository.v].v.branch
    ELSE Missing

(* C7: a push leads to a 'repo-update' call of update_agent_knowledge only if its
   ref is 'refs/heads/<branch>' for the branch recorded for the onboarded
   repository; a push to another ref is answered ignored/200 without the call. *)
C7_PushOnlyToOnboardedBranch ==
    (Served("/webhook") /\ handler = "push") =>
        LET branch == RecordedBranch(req.data) IN
        /\ RepoUpdateCalled =>
               /\ branch.k = "val"
               /\ req.data.ref.v = Str_refs_heads \o branch.v
        /\ (branch.k = "val" /\ req.data.ref.v # Str_refs_heads \o branch.v) =>
               /\ resp.status = "ignored"
               /\ resp.code = 200
               /\ ~Called("update_agent_knowledge")

C7_Witness ==
    /\ Served("/webhook")
    /\ handler = "push"
    /\ RepoUpdateCalled
    /\ req.data.ref = Val(Str_refs_heads_dev)
    /\ store[UrlA].v.branch = Val(Str_dev)

IsAgentLogin(login) == login.k = "val" /\ Lower(login.v) = Str_heurisdev

(* The agent is the requested reviewer, as the claim reads the two members *)
AgentRequested(data) ==
    IF data.requested_reviewer.k # "missing"
    THEN /\ data.requested_reviewer.k = "val"
         /\ IsAgentLogin(data.requested_reviewer.v.login)
    ELSE /\ data.requested_reviewers.k = "val"
         /\ \E j \in DOMAIN data.requested_reviewers.v :
               IsAgentLogin(data.requested_reviewers.v[j].login)

(* C8: review_pr runs, and a review is posted, only for action 'review_requested'
   with the agent as requested reviewer, compared case-insensitively: by
   requested_reviewer alone when present, else by some entry of
   requested_reviewers; with neither member the event is ignored. *)
C8_ReviewOnlyWhenRequested ==
    Served("/webhook") =>
        /\ (Called("review_pr") \/ Called("post_pr_review")) =>
               /\ handler = "pull_request"
               /\ ActionIs(req.data, "review_requested")
               /\ AgentRequested(req.data)
        /\ (handler = "pull_request" /\ ActionIs(req.data, "review_requested")
            /\ req.data.requested_reviewer.k = "missing"
            /\ req.data.requested_reviewers.k = "missing") =>
               /\ resp.status = "ignored"
               /\ resp.code = 200
               /\ calls = <<>>

C8_Witness ==
    /\ Served("/webhook")
    /\ Called("post_pr_review")
    /\ req.data.requested_reviewer = User(Val(Str_HeurisDev))
    /\ req.data.requested_reviewers.k = "val"
    /\ ~(\E j \in DOMAIN req.data.requested_reviewers.v :
            IsAgentLogin(req.data.requested_reviewers.v[j].login))

Mentions(text) == Contains(Lower(text), Str_heurisdev)

AgentAuthored(data) ==
    /\ data.comment.k = "val"
    /\ data.comment.v.user.k = "val"
    /\ IsAgentLogin(data.comment.v.user.v.login)

CommentText(data) ==
    IF data.comment.k = "val" /\ data.comment.v.body.k = "val" THEN data.comment.v.body.v
    ELSE <<>>

IssueText(data) ==
    Fmt(GetD(data.issue.v.title, <<>>)) \o Str_NL \o Fmt(GetD(data.issue.v.body, <<>>))

AgentInvoked == Called("apply_agent") \/ Called("post_issue_comment")

(* C9 as claimed: a comment written by 'heurisdev' (any case) never invokes
   apply_agent nor posts a comment, and an issue or issue-comment event whose text
   does not contain 'heurisdev' (any case) is answered 'ignored' without invoking
   the agent. *)
C9_Original ==
    Served("/webhook") =>
        /\ AgentAuthored(req.data) => ~AgentInvoked
        /\ (handler = "issue_comment" /\ ~Mentions(CommentText(req.data))) =>
               resp.status = "ignored" /\ ~AgentInvoked
        /\ (handler = "issue" /\ ~Mentions(IssueText(req.data))) =>
               resp.status = "ignored" /\ ~AgentInvoked

WellFormedComment(data) ==
    /\ data.comment.k = "val"
    /\ data.comment.v.user.k # "null"
    /\ (data.comment.v.user.k = "val" => data.comment.v.user.v.login.k # "null")

RepoKnown(data) == RecordedBranch(data).k = "val"

(* C9 as amended: a comment written by 'heurisdev' never invokes the agent; an
   issue or issue-comment event whose text does not contain 'heurisdev' never
   invokes the agent either, and is answered 'ignored' with 200 except where the
   handler raises before the mention test (an issue event of a repository that is
   not onboarded, a comment event without a usable comment author), which is
   answered 'error' with 500. *)
C9_NoSelfReaction ==
    Served("/webhook") =>
        /\ AgentAuthored(req.data) => ~AgentInvoked
        /\ (handler = "issue_comment" /\ AgentAuthored(req.data)) =>
               resp = Response("ignored", 200, "Self-comment ignored")
        /\ (handler = "issue_comment" /\ ~Mentions(CommentText(req.data))) =>
               /\ ~AgentInvoked
               /\ IF WellFormedComment(req.data)
                  THEN resp.status = "ignored" /\ resp.code = 200
                  ELSE resp.status = "error" /\ resp.code = 500
        /\ (handler = "issue" /\ ~Mentions(IssueText(req.data))) =>
               /\ ~AgentInvoked
               /\ IF RepoKnown(req.data)
                  THEN resp.status = "ignored" /\ resp.code = 200
                  ELSE resp.status = "error" /\ resp.code = 500

C9_Witness ==
    /\ Served("/webhook")
    /\ handler = "issue_comment"
    /\ AgentAuthored(req.data)
    /\ req.data.comment.v.user = User(Val(Str_HeurisDev))
    /\ Mentions(CommentText(req.data))
    /\ RepoKnown(req.data)
    /\ github_token
    /\ resp.reason = "Self-comment ignored"

(* C10: /onboard answers a request without repo_url or src_folder with 400 'error'
   and no call; otherwise it calls update_agent_knowledge once, with a
   'repo-onboard' event with empty meta_data and the branch defaulting to 'main'
   when absent, and answers 200 'onboarded', or 500 'error' when the call raises. *)
C10_Onboard ==
    Served("/onboard") =>
        IF req.data.repo_url.k = "missing" \/ req.data.src_folder.k = "missing"
        THEN /\ resp.code = 400
             /\ resp.status = "error"
             /\ calls = <<>>
        ELSE /\ Len(calls) = 1
             /\ calls[1].fn = "update_agent_knowledge"
             /\ calls[1].event.event_type = "repo-onboard"
             /\ calls[1].event.meta_data.keys = {}
             /\ calls[1].repo.url = req.data.repo_url.v
             /\ calls[1].repo.src_folder = req.data.src_folder.v
             /\ calls[1].repo.branch = (IF req.data.branch.k = "missing" THEN Val(Str_main)
                                        ELSE req.data.branch)
             /\ IF calls[1].raised
                THEN resp.code = 500 /\ resp.status = "error"
                ELSE resp.code = 200 /\ resp.status = "onboarded"

C10_Witness ==
    /\ Served("/onboard")
    /\ req.data.branch.k = "missing"
    /\ resp.status = "onboarded"
    /\ calls[1].repo.branch = Val(Str_main)
    /\ store[UrlA].k = "val"

----------------------------------------------------------------------------
(* The localization data of State: what cleanup is to remove *)
Cleared(s) ==
    /\ s.package_suggestions = NoneV
    /\ s.package_name_index = NoneV
    /\ s.file_suggestions = NoneV
    /\ s.file_contents = <<>>

(* A step in which the cleanup task returns *)
CleanupStep ==
    /\ status = "running"
    /\ \E i \in DOMAIN tasks : tasks[i].node = "cleanup"
    /\ log' = Append(log, [node |-> "cleanup", step |-> step, ok |-> TRUE])

(* The run ended with cleanup as the last node to run *)
AfterCleanup ==
    /\ status = "END"
    /\ log # <<>>
    /\ log[Len(log)].node = "cleanup"

(* C11: the step in which cleanup returns leaves package_suggestions,
   package_name_index and file_suggestions None and file_contents empty, and
   leaves messages, repo_id and repo as they were; the next request on the thread,
   started after a run that ended with cleanup, begins with none of that data. *)
C11_CleanupClears ==
    [][/\ CleanupStep =>
             /\ Cleared(state')
             /\ state'.messages = state.messages
             /\ state'.repo_id = state.repo_id
             /\ state'.repo = state.repo
             /\ status' = "END"
       /\ (AfterCleanup /\ runs' = runs + 1) =>
             /\ Cleared(state')
             /\ state'.repo_id = state.repo_id
             /\ state'.messages = state.messages \o <<"human">>]_vars

(* The second request on the thread has started after a first one that fetched
   files, answered and was cleaned up *)
C11_Witness ==
    /\ runs = 2
    /\ status = "running"
    /\ step = 1
    /\ log = <<>>
    /\ state.messages = <<"human", "ai", "human">>
    /\ state.repo_id # 0
    /\ Cleared(state)

----------------------------------------------------------------------------
(* The nodes that have run in the current run, and the conditional edges whose
   branch function the run has evaluated *)
NodesRun == {log[k].node : k \in DOMAIN log}

BranchesTaken ==
    {ce \in ConditionalEdges :
        \/ ce.source = "START" /\ status # "idle"
        \/ \E k \in DOMAIN log : log[k].node = ce.source /\ log[k].ok}

(* A task of a step after the first was scheduled by an edge or by a conditional
   edge leaving a node that returned in the step before *)
Scheduled(n, s) ==
    IF s = 1
    THEN \E ce \in ConditionalEdges : ce.source = "START" /\ n \in ce.targets
    ELSE \E j \in DOMAIN log :
            /\ log[j].step = s - 1
            /\ log[j].ok
            /\ \/ <<log[j].node, n>> \in Edges
               \/ \E ce \in ConditionalEdges :
                     ce.source = log[j].node /\ n \in ce.targets

GraphInv ==
    /\ NodesRun \subseteq Nodes
    /\ \A i \in DOMAIN tasks : tasks[i].node \in Nodes /\ Scheduled(tasks[i].node, step)
    /\ \A k \in DOMAIN log : Scheduled(log[k].node, log[k].step)

(* C12 as stated, read of what a run does: with five nodes and one conditional
   branch in the graph, no run runs more than five different nodes or evaluates
   more than one branch. *)
C12_Original ==
    /\ GraphInv
    /\ Cardinality(NodesRun) <= 5
    /\ Cardinality(BranchesTaken) <= 1

(* C12, amended: the graph has six nodes (onboard_repo besides the five of the
   main sequence) and two conditional branches, the one leaving START and the
   fan-out leaving localize_files; every task that runs is one of the six nodes
   and was scheduled by an edge or by one of the two branches. *)
C12_SixNodesTwoBranches ==
    /\ Cardinality(Nodes) = 6
    /\ Cardinality(ConditionalEdges) = 2
    /\ {ce.source : ce \in ConditionalEdges} = {"START", "localize_files"}
    /\ GraphInv
    /\ Cardinality(BranchesTaken) <= 2

(* A run that ran all six nodes and evaluated both branches has ended *)
C12_Witness ==
    /\ status = "END"
    /\ NodesRun = Nodes
    /\ Cardinality(NodesRun) = 6
    /\ BranchesTaken = ConditionalEdges
    /\ \A k \in DOMAIN log : log[k].ok

----------------------------------------------------------------------------
(* suggest_solution was the last node to run: code_files is the context it built
   and file_suggestions is still the list it built it from *)
SuggestActed ==
    /\ log # <<>>
    /\ log[Len(log)].node = "suggest_solution"
    /\ ~state.file_suggestions.none

(* The first fetch task of this run's fan-out that was sent the filepath *)
FirstTask(files, filepath) ==
    CHOOSE j \in DOMAIN files :
        /\ files[j] = filepath
        /\ \A m \in DOMAIN files : files[m] = filepath => j <= m

(* One entry per suggested file, in the order of the suggestions *)
OneEntryPerFile(files) ==
    /\ Len(code_files) = Len(files)
    /\ \A k \in DOMAIN files : code_files[k].filepath = files[k]

(* Each entry holds what the first fetch task sent its filepath returned in this
   run, whatever the order the tasks returned in *)
PairedWithFetched(files) ==
    /\ DOMAIN fetched = DOMAIN files
    /\ \A k \in DOMAIN code_files :
          code_files[k].content = fetched[FirstTask(files, files[k])]

(* C13: the context suggest_solution builds has one entry per entry of
   file_suggestions.files, in that order, each with the content the fan-out
   fetched for its filepath (that of the first task sent the filepath when it is
   suggested more than once), in whatever order the fetch tasks returned. *)
C13_ContextFromFetched ==
    SuggestActed =>
        /\ OneEntryPerFile(state.file_suggestions.v)
        /\ PairedWithFetched(state.file_suggestions.v)

(* The part of C13 that holds: the entries and their order always, and the pairing
   whenever the run found file_contents empty, that is on a thread whose runs so
   far all ended with cleanup or before the fan-out's barrier. *)
FreshContextInv ==
    SuggestActed =>
        /\ OneEntryPerFile(state.file_suggestions.v)
        /\ Len(state.file_contents) = Len(state.file_suggestions.v) =>
               PairedWithFetched(state.file_suggestions.v)

(* The holding part's cases are reached: a fetch task returns before one sent
   ahead of it, and a context is built for a filepath suggested twice and
   fetched with two contents *)
FetchReordered ==
    \E j, k \in DOMAIN tasks :
        /\ j < k
        /\ tasks[k].node = "fetch_file_content"
        /\ tasks[k].done
        /\ ~tasks[j].done

FreshContextReached ==
    /\ SuggestActed
    /\ Len(state.file_contents) = Len(state.file_suggestions.v)
    /\ \E j, k \in DOMAIN fetched :
          /\ j < k
          /\ state.file_suggestions.v[j] = state.file_suggestions.v[k]
          /\ fetched[j] # fetched[k]

====
